---- MODULE Spec2Model ----
(***************************************************************************)
(* Model of the PIX receipt intake of AI-Comprovantes:                     *)
(*   read_image (classifier)  ->  processPixReceipt  ->  planilha          *)
(*   (Ledger sheet "Comprovantes", Drive folder, Summary sheet "Main").    *)
(*                                                                         *)
(* A text is a sequence of one-character strings.  Characters outside      *)
(* ASCII are named: "a_til" is U+00E3, "A_til" is U+00C3, "c_ced" is       *)
(* U+00E7, "C_ced" is U+00C7, "e_acu" is U+00E9, "E_acu" is U+00C9,       *)
(* "U0301", "U0303" and "U0327" are the combining acute, tilde and         *)
(* cedilla, "TAB" is U+0009 and "QUOTE" is the double quote.               *)
(***************************************************************************)
EXTENDS Integers, Sequences, FiniteSets, TLC

---------------------------------------------------------------------------
(* Bounds of the model *)

\* Number of processPixReceipt invocations that may be in progress at once
\* (separate messages.upsert events are not serialised by the emitter).
NumWorkers == 2

\* Total number of intakes started in one behaviour.
MaxIntakes == 2

\* Longest row of headers and longest column of names given to the lookups.
MaxLabels == 2

\* Invocations of the messages.upsert listener pending at the same time.
NumHandlers == 2

\* Longest batch of one messages.upsert event.
MaxBatch == 2

\* Total number of messages received in one behaviour.
MaxReceived == 3

\* Calls of connect() in one behaviour, the first one included.
MaxConnects == 3

\* 'close' events that are not a logout in one behaviour.
MaxCloses == 12

\* Calls of getAuthClient in one behaviour.
MaxAuthCalls == 3

---------------------------------------------------------------------------
(* Program constants *)

\* SPREADSHEET_CONFIG.nameStartRow, default of SHEET_NAME_START_ROW
nameStartRow == 2

\* SPREADSHEET_CONFIG.nameEndRow, default of SHEET_NAME_END_ROW
nameEndRow == 29

\* WHATSAPP_CONFIG.maxReconnectAttempts
maxReconnectAttempts == 10

\* SPREADSHEET_CONFIG.monthStartColumn.charCodeAt(0), 'B'
monthStartColCode == 66

\* SPREADSHEET_CONFIG.monthEndColumn.charCodeAt(0), 'L'
monthEndColCode == 76

\* SPREADSHEET_CONFIG.formulaSeparator, default of SHEETS_FORMULA_SEPARATOR
formulaSeparator == <<";">>

\* The literal the classifier answers for an image that is no receipt.
NaoEPix == <<"N", "a_til", "o", " ", "e_acu", " ", "P", "I", "X">>

\* The marker token of the Ledger headers.
CompMarker == <<"C", "o", "m", "p">>

---------------------------------------------------------------------------
(* Text primitives *)

LowerChars ==
  <<"a", "b", "c", "d", "e", "f", "g", "h", "i", "j", "k", "l", "m", "n",
    "o", "p", "q", "r", "s", "t", "u", "v", "w", "x", "y", "z",
    "a_til", "c_ced", "e_acu">>

UpperChars ==
  <<"A", "B", "C", "D", "E", "F", "G", "H", "I", "J", "K", "L", "M", "N",
    "O", "P", "Q", "R", "S", "T", "U", "V", "W", "X", "Y", "Z",
    "A_til", "C_ced", "E_acu">>

IndexIn(c, chars) ==
  IF \E i \in 1..Len(chars) : chars[i] = c
    THEN CHOOSE i \in 1..Len(chars) : chars[i] = c
    ELSE 0

\* String.prototype.toLowerCase, one character
LowerOf(c) ==
  IF IndexIn(c, UpperChars) > 0 THEN LowerChars[IndexIn(c, UpperChars)] ELSE c

\* String.prototype.toUpperCase, one character
UpperOf(c) ==
  IF IndexIn(c, LowerChars) > 0 THEN UpperChars[IndexIn(c, LowerChars)] ELSE c

toLowerCase(t) == [i \in 1..Len(t) |-> LowerOf(t[i])]

\* Canonical decomposition (NFD) of one character
DecomposeChar(c) ==
  CASE c = "a_til" -> <<"a", "U0303">>
    [] c = "A_til" -> <<"A", "U0303">>
    [] c = "c_ced" -> <<"c", "U0327">>
    [] c = "C_ced" -> <<"C", "U0327">>
    [] c = "e_acu" -> <<"e", "U0301">>
    [] c = "E_acu" -> <<"E", "U0301">>
    [] OTHER -> <<c>>

RECURSIVE NFD(_)
NFD(t) == IF t = <<>> THEN <<>> ELSE DecomposeChar(Head(t)) \o NFD(Tail(t))

\* the character class U+0300..U+036F the replace of normalizeText removes
CombiningMarks == {"U0301", "U0303", "U0327"}

StripMarks(t) == SelectSeq(t, LAMBDA c : c \notin CombiningMarks)

\* the characters String.prototype.trim removes
WhiteSpace == {" ", "TAB"}

RECURSIVE TrimStart(_)
TrimStart(t) ==
  IF t # <<>> /\ Head(t) \in WhiteSpace THEN TrimStart(Tail(t)) ELSE t

RECURSIVE TrimEnd(_)
TrimEnd(t) ==
  IF t # <<>> /\ t[Len(t)] \in WhiteSpace
    THEN TrimEnd(SubSeq(t, 1, Len(t) - 1))
    ELSE t

trim(t) == TrimEnd(TrimStart(t))

\* String.prototype.includes
includes(t, s) ==
  \E i \in 0..(Len(t) - Len(s)) : SubSeq(t, i + 1, i + Len(s)) = s

\* String.prototype.startsWith
startsWith(t, s) == Len(t) >= Len(s) /\ SubSeq(t, 1, Len(s)) = s

\* String.prototype.slice(from, to) with 0 <= from <= to
slice(t, from, to) ==
  SubSeq(t, from + 1, IF to < Len(t) THEN to ELSE Len(t))

\* String.prototype.split(' '): the sequence of words
RECURSIVE splitAcc(_, _, _)
splitAcc(t, cur, acc) ==
  IF t = <<>> THEN Append(acc, cur)
  ELSE IF Head(t) = " " THEN splitAcc(Tail(t), <<>>, Append(acc, cur))
  ELSE splitAcc(Tail(t), Append(cur, Head(t)), acc)

split(t) == splitAcc(t, <<>>, <<>>)

\* Array.prototype.join(' ')
RECURSIVE join(_)
join(ws) ==
  IF ws = <<>> THEN <<>>
  ELSE IF Len(ws) = 1 THEN ws[1]
  ELSE ws[1] \o <<" ">> \o join(Tail(ws))

\* String.prototype.replace(/"/g, '""')
RECURSIVE escapeQuotes(_)
escapeQuotes(t) ==
  IF t = <<>> THEN <<>>
  ELSE (IF Head(t) = "QUOTE" THEN <<"QUOTE", "QUOTE">> ELSE <<Head(t)>>)
       \o escapeQuotes(Tail(t))

\* Array.prototype.findIndex: 0-based index of the first match, or -1
findIndex(xs, P(_)) ==
  IF \E i \in 1..Len(xs) : P(xs[i])
    THEN (CHOOSE i \in 1..Len(xs) :
            P(xs[i]) /\ \A j \in 1..(i - 1) : ~P(xs[j])) - 1
    ELSE -1

---------------------------------------------------------------------------
(* Pure functions of the program *)

capitalizeWord(word) ==
  IF word = <<>> THEN <<>> ELSE <<UpperOf(word[1])>> \o Tail(word)

capitalizeName(name) ==
  LET words == split(toLowerCase(name))
  IN  join([i \in 1..Len(words) |-> capitalizeWord(words[i])])

\* Variant: the text is trimmed before the marks are removed
normalizeText_trimFirst(text) == toLowerCase(StripMarks(NFD(trim(text))))

normalizeText(text) == trim(toLowerCase(StripMarks(NFD(text))))

\* String.fromCharCode for the codes of the capital letters
fromCharCode(code) ==
  IF code \in 65..90 THEN UpperChars[code - 64] ELSE "other"

\* Variant: the offset is counted from the column after the first one
getColumnFromOffset_next(offset) == fromCharCode(monthStartColCode + offset + 1)

getColumnFromOffset(offset) == fromCharCode(monthStartColCode + offset)

\* The file name processPixReceipt derives
nomeFormatado(nomeCapitalizado, mes, extension) ==
  LET primeiroNome == split(nomeCapitalizado)[1]
      mesAbrev == slice(mes, 0, 3)
      ext == IF startsWith(extension, <<".">>)
               THEN extension
               ELSE <<".">> \o extension
  IN  primeiroNome \o <<"_">> \o mesAbrev \o ext

\* Variant: the argument separator is hard-coded as a comma
hyperlink_comma(fileLink, fileName) ==
  <<"=HYPERLINK(", "QUOTE">> \o escapeQuotes(fileLink) \o <<"QUOTE">>
    \o <<",">>
    \o <<"QUOTE">> \o escapeQuotes(fileName) \o <<"QUOTE", ")">>

\* The formula planilha writes into the Ledger cell
hyperlink(fileLink, fileName) ==
  <<"=HYPERLINK(", "QUOTE">> \o escapeQuotes(fileLink) \o <<"QUOTE">>
    \o formulaSeparator
    \o <<"QUOTE">> \o escapeQuotes(fileName) \o <<"QUOTE", ")">>

---------------------------------------------------------------------------
(* The environment: sheet contents, clock, classifier answers, images *)

Ana == <<"A", "n", "a">>
AnaB == <<"A", "n", "a", " ", "B">>

Janeiro == <<"J", "a", "n", "e", "i", "r", "o">>
Fevereiro == <<"F", "e", "v", "e", "r", "e", "i", "r", "o">>
Marco == <<"M", "a", "r", "c_ced", "o">>

CompPrefix == CompMarker \o <<" ", "-", " ">>

\* Column A2:A29 of the sheet "Comprovantes"
LedgerNames == <<Ana, AnaB>>

\* Row B1:L1 of the sheet "Comprovantes"; the last header lacks the marker
LedgerHeaders == <<CompPrefix \o Janeiro, CompPrefix \o Fevereiro, Marco>>

\* Column A2:A29 of the sheet "Main"; Ana B has no row there
MainNames == <<Ana>>

\* Row B1:L1 of the sheet "Main"; Janeiro has no column there
MainHeaders == <<Fevereiro, Marco>>

\* What the vision model may answer as the payer's name; "bia" has no row
RawNames ==
  { <<"A", "N", "A">>,
    <<"a", "n", "a", " ", "b">>,
    <<"b", "i", "a">> }

\* What getCurrentMonthName may return during a behaviour
Months == {Janeiro, Fevereiro, Marco}

\* extensionFromMime results that reach processPixReceipt
Extensions == { <<"j", "p", "g">>, <<"p", "n", "g">> }

\* Image buffers
Images == {"img1", "img2"}

Workers == 1..NumWorkers

LedgerCells ==
  { <<getColumnFromOffset(c - 1), nameStartRow + r - 1>> :
      c \in 1..Len(LedgerHeaders), r \in 1..Len(LedgerNames) }

MainCells ==
  { <<getColumnFromOffset(c - 1), nameStartRow + r - 1>> :
      c \in 1..Len(MainHeaders), r \in 1..Len(MainNames) }

\* webViewLink of the Drive file with the given id
IdChars == <<"1", "2", "3", "4", "5", "6", "7", "8", "9">>
LinkOf(id) == <<"d", "/", IdChars[id]>>

---------------------------------------------------------------------------
(* The classifier, read_image *)

\* What groq.chat.completions.create may do
GroqOutcomes ==
  [kind : {"content"}, text : RawNames \cup {NaoEPix}]
    \cup {[kind |-> "nocontent"]}
    \cup [kind : {"throw"}, isError : BOOLEAN,
          words : SUBSET {"not found", "api", "network"}]

\* read_image: [ret |-> text] when it returns, [thrown |-> message] when it throws
read_image(o) ==
  IF o.kind = "content" THEN [ret |-> trim(o.text)]
  ELSE IF o.kind = "nocontent" THEN [ret |-> NaoEPix]
  ELSE IF o.isError /\ "not found" \in o.words
    THEN [thrown |-> "Arquivo nao encontrado"]
  ELSE IF o.isError /\ "api" \in o.words
    THEN [thrown |-> "Erro na API Groq"]
  ELSE IF o.isError /\ "network" \in o.words
    THEN [thrown |-> "Erro de rede ao conectar Groq"]
  ELSE [ret |-> NaoEPix]

Returned(r) == "ret" \in DOMAIN r

\* Variant: the sentinel is not recognised
isSentinel_never(nome) == FALSE

\* processPixReceipt: nome === "Nao e PIX"
isSentinel(nome) == nome = NaoEPix

---------------------------------------------------------------------------
(* State *)

VARIABLES
  ledger,      \* sheet "Comprovantes": cell -> its content, <<>> when empty
  main,        \* sheet "Main": cell -> TRUE when marked
  drive,       \* the Drive folder: a set of files [id, name, bytes]
  pc,          \* worker -> the await its processPixReceipt call is at
  inp,         \* worker -> the intake's inputs and derived values
  loc,         \* worker -> the locals of planilha
  result,      \* worker -> the ProcessResult returned, or NoResult
  raised,      \* worker -> the error raised inside the try block, or "none"
  log,         \* worker -> the remote calls the intake has issued, in order
  started,     \* number of intakes started so far
  cellWrites,  \* Ledger cell -> number of values.update calls that wrote it
  created,     \* number of drive.files.create calls that created a file
  calc,        \* a pure function's arguments and, once applied, its value
  groupJid,    \* WHATSAPP_CONFIG.groupJid
  hpc,         \* messages.upsert listener invocation -> the await it is at
  left,        \* listener invocation -> messages of its batch not yet handled
  inflight,    \* listener invocation -> processPixReceipt calls not yet returned
  metrics,     \* the counters messagesReceived, messagesProcessed, errors
  res,         \* listener invocation -> the last ProcessResult it received
  cur,         \* listener invocation -> the msg its handleMessage call is given
  batch,       \* listener invocation -> messages.length of its event
  handled,     \* listener invocation -> positions passed to handleMessage so far
  env,         \* required environment variable -> "unset", "empty" or "set"
  boot,        \* how far the start of the process has come, and its error
  conn,        \* the closure state of startWhatsApp and the process's fate
  auth         \* google-auth.ts: cachedAuth, clients created, clients returned

intakeVars ==
  <<ledger, main, drive, pc, inp, loc, result, raised, log, started, cellWrites, created>>

transportVars ==
  <<groupJid, hpc, left, inflight, metrics, res, cur, batch, handled>>

startupVars == <<env, boot>>

processVars == <<conn, auth>>

vars == <<intakeVars, calc, transportVars, startupVars, processVars>>

Empty == <<>>
NoInput == [nome |-> Empty, nomeCapitalizado |-> Empty, mes |-> Empty,
            fileName |-> Empty, buffer |-> "none"]
NoLocals == [targetCell |-> <<"", 0>>, existingValue |-> Empty,
             fileId |-> 0, fileLink |-> Empty, hyperlink |-> Empty,
             mainCell |-> <<"", 0>>]
NoResult == [success |-> FALSE, reason |-> "pending", error |-> "none"]

\* No handleMessage call in progress
NoMessage ==
  [fromMe |-> FALSE, hasMessage |-> FALSE, old |-> FALSE, ignoredType |-> FALSE,
   ignoredJid |-> FALSE, hasImage |-> FALSE, remoteJid |-> ""]

NotPix == [success |-> FALSE, reason |-> "not-pix", error |-> "none"]
Failure(message) == [success |-> FALSE, reason |-> "error", error |-> message]
Success == [success |-> TRUE, reason |-> "none", error |-> "none"]

\* No pure function under study
NoCalc == [op |-> "none", args |-> <<>>, applied |-> FALSE, out |-> <<>>]

\* GROUP_JID of the monitored group
GroupJid == "group@g.us"

\* Invocations of the messages.upsert listener that may be pending at once
Handlers == 1..NumHandlers

\* const metrics = { messagesReceived: 0, messagesProcessed: 0, errors: 0 }
ListenerInit ==
  /\ hpc = [h \in Handlers |-> "idle"]
  /\ left = [h \in Handlers |-> 0]
  /\ inflight = [h \in Handlers |-> 0]
  /\ metrics = [messagesReceived |-> 0, messagesProcessed |-> 0, errors |-> 0]
  /\ res = [h \in Handlers |-> NoResult]
  /\ cur = [h \in Handlers |-> NoMessage]
  /\ batch = [h \in Handlers |-> 0]
  /\ handled = [h \in Handlers |-> <<>>]

IntakeInit ==
  /\ ledger = [c \in LedgerCells |-> Empty]
  /\ main = [c \in MainCells |-> FALSE]
  /\ drive = {}
  /\ pc = [w \in Workers |-> "idle"]
  /\ inp = [w \in Workers |-> NoInput]
  /\ loc = [w \in Workers |-> NoLocals]
  /\ result = [w \in Workers |-> NoResult]
  /\ raised = [w \in Workers |-> "none"]
  /\ log = [w \in Workers |-> <<>>]
  /\ started = 0
  /\ cellWrites = [c \in LedgerCells |-> 0]
  /\ created = 0

\* The variables config.ts reads with requireEnv, in the order it reads them
RequiredEnv ==
  <<"GOOGLE_SHEET_ID", "GOOGLE_DRIVE_FOLDER_ID", "GOOGLE_CLIENT_ID",
    "GOOGLE_CLIENT_SECRET", "GOOGLE_REFRESH_TOKEN", "GROQ_API_KEY">>

RequiredNames == {RequiredEnv[i] : i \in DOMAIN RequiredEnv}

\* The process has loaded its modules and opened the WhatsApp socket
Started ==
  /\ env = [name \in RequiredNames |-> "set"]
  /\ boot = [stage |-> "open", error |-> "none"]

\* startWhatsApp: reconnectState, currentSock, isShuttingDown, reconnectTimer,
\* healthServer as declared; metrics.connected and metrics.reconnections;
\* timers counts the setTimeout callbacks of scheduleReconnect still due,
\* connectCalls the calls of connect(), starting and reconnecting the calls
\* of connect() suspended at an await, sockets the calls of makeWASocket
NoConn(health) ==
  [attempts |-> 0, reconnectTimer |-> "null", timers |-> 0,
   isShuttingDown |-> FALSE, healthServer |-> health, proc |-> "running",
   connectCalls |-> 0, starting |-> 0, reconnecting |-> 0,
   sockets |-> 0, currentSock |-> 0,
   connected |-> FALSE, reconnections |-> 0]

\* let cachedAuth: OAuth2Client | null = null
NoAuth == [cachedAuth |-> 0, created |-> 0, returned |-> <<>>]

\* The process before startWhatsApp has called connect(), HEALTH_PORT at its default
ProcessInit == conn = NoConn(TRUE) /\ auth = NoAuth

Init ==
  /\ IntakeInit
  /\ calc = NoCalc
  /\ groupJid = GroupJid
  /\ ListenerInit
  /\ Started
  /\ ProcessInit

\* Variant: a caught error is reported as "not a receipt"
Catch_asNotPix(message) == NotPix

\* The catch block of processPixReceipt: what it returns for a caught error
Catch(message) == Failure(message)

\* An error raised inside the try block of processPixReceipt (planilha logs
\* and rethrows its own): the invocation ends with what the catch returns.
Throw(w, message) ==
  /\ pc' = [pc EXCEPT ![w] = "done"]
  /\ raised' = [raised EXCEPT ![w] = message]
  /\ result' = [result EXCEPT ![w] = Catch(message)]

\* The invocation goes on to its next await
Goto(w, label) ==
  /\ pc' = [pc EXCEPT ![w] = label]
  /\ UNCHANGED <<result, raised>>

Call(w, name) == log' = [log EXCEPT ![w] = Append(@, name)]

---------------------------------------------------------------------------
(* Resolution of rows and columns *)

\* A cell of the fetched range that holds no value
Null == <<"NULL">>

\* x ?? ""
orEmpty(x) == IF x = Null THEN <<>> ELSE x

\* Variant: the row labels are compared as they are written
ledgerFindRow_raw(names, nome) ==
  findIndex(names, LAMBDA n : orEmpty(n) = nome)

\* planilha: names.findIndex((n) => normalizeText(n ?? "") === nomeNormalizado)
ledgerFindRow(names, nome) ==
  findIndex(names, LAMBDA n : normalizeText(orEmpty(n)) = normalizeText(nome))

\* Variant: the marker token is not asked for
ledgerFindColumn_noMarker(headers, mes) ==
  findIndex(headers, LAMBDA h : includes(orEmpty(h), mes))

\* planilha: headers.findIndex((h) => (h ?? "").includes(mes) && (h ?? "").includes("Comp"))
ledgerFindColumn(headers, mes) ==
  findIndex(headers,
            LAMBDA h : includes(orEmpty(h), mes) /\ includes(orEmpty(h), CompMarker))

\* marcarComprovanteNaAbaMain: mainNames.findIndex
mainFindRow(names, nome) ==
  findIndex(names, LAMBDA n : normalizeText(orEmpty(n)) = normalizeText(nome))

\* marcarComprovanteNaAbaMain: mainHeaders.findIndex
mainFindColumn(headers, mes) ==
  findIndex(headers,
            LAMBDA h : includes(normalizeText(orEmpty(h)), normalizeText(mes)))

\* Variant: a name that matches no row falls back to the first row
ledgerNomeIndex_fallback(nome) ==
  LET i == ledgerFindRow(LedgerNames, nome)
  IN  IF i = -1 THEN 0 ELSE i

\* planilha: nomeIndex
ledgerNomeIndex(nome) == ledgerFindRow(LedgerNames, nome)

\* planilha: colIndex
ledgerColIndex(mes) == ledgerFindColumn(LedgerHeaders, mes)

\* marcarComprovanteNaAbaMain: mainNomeIndex
mainNomeIndex(nome) == mainFindRow(MainNames, nome)

\* marcarComprovanteNaAbaMain: mainMonthIndex
mainMonthIndex(mes) == mainFindColumn(MainHeaders, mes)

targetCellOf(nome, mes) ==
  <<getColumnFromOffset(ledgerColIndex(mes)), ledgerNomeIndex(nome) + nameStartRow>>

mainCellOf(nome, mes) ==
  <<getColumnFromOffset(mainMonthIndex(mes)), mainNomeIndex(nome) + nameStartRow>>

---------------------------------------------------------------------------
(* Actions: one per await of processPixReceipt / planilha *)

\* What a Drive response may lack
Responses == {"full", "noId", "noLink"}

\* Variant: the query never matches
existingFiles_none(fileName) == {}

\* drive.files.list with q = name='<fileName>' and '<folderId>' in parents
existingFiles(fileName) == {f \in drive : f.name = fileName}

\* processPixReceipt up to the call of planilha: the classifier call, the
\* sentinel test, and the derivation of name, month and file name.
processPixReceipt(w) ==
  /\ pc[w] = "idle"
  /\ \A v \in 1..(w - 1) : pc[v] # "idle"
  /\ started < MaxIntakes
  /\ \E buffer \in Images, extension \in Extensions,
        o \in GroqOutcomes, mes \in Months :
       LET r == read_image(o)
           nomeCapitalizado == capitalizeName(r.ret)
       IN  /\ started' = started + 1
           /\ log' = [log EXCEPT ![w] = <<"groq.create">>]
           /\ IF ~Returned(r)
                THEN Throw(w, r.thrown) /\ UNCHANGED inp
              ELSE IF isSentinel(r.ret)
                THEN /\ pc' = [pc EXCEPT ![w] = "done"]
                     /\ result' = [result EXCEPT ![w] = NotPix]
                     /\ inp' = [inp EXCEPT ![w].nome = r.ret]
                     /\ UNCHANGED raised
              ELSE /\ inp' = [inp EXCEPT ![w] =
                        [nome |-> r.ret,
                         nomeCapitalizado |-> nomeCapitalizado,
                         mes |-> mes,
                         fileName |-> nomeFormatado(nomeCapitalizado, mes, extension),
                         buffer |-> buffer]]
                   /\ Goto(w, "lookup")
  /\ UNCHANGED <<ledger, main, drive, loc, cellWrites, created>>

\* planilha: read names and headers of the Ledger, resolve row and column
planilhaLookup(w) ==
  /\ pc[w] = "lookup"
  /\ Call(w, "ledger.get")
  /\ \E ok \in BOOLEAN :
       IF ~ok THEN Throw(w, "RemoteFailure") /\ UNCHANGED loc
       ELSE IF ledgerNomeIndex(inp[w].nomeCapitalizado) = -1
         THEN Throw(w, "Nome nao encontrado") /\ UNCHANGED loc
       ELSE IF ledgerColIndex(inp[w].mes) = -1
         THEN Throw(w, "Coluna nao encontrada") /\ UNCHANGED loc
       ELSE /\ loc' = [loc EXCEPT ![w].targetCell =
                         targetCellOf(inp[w].nomeCapitalizado, inp[w].mes)]
            /\ Goto(w, "cellCheck")
  /\ UNCHANGED <<ledger, main, drive, inp, started, cellWrites, created>>

\* Variant: the value read is not tested
planilhaCellCheck_noGuard(w) ==
  /\ pc[w] = "cellCheck"
  /\ Call(w, "cell.get")
  /\ \E ok \in BOOLEAN :
       IF ~ok THEN Throw(w, "RemoteFailure") /\ UNCHANGED loc
       ELSE /\ loc' = [loc EXCEPT ![w].existingValue = ledger[loc[w].targetCell]]
            /\ Goto(w, "driveList")
  /\ UNCHANGED <<ledger, main, drive, inp, started, cellWrites, created>>

\* planilha: the duplicate guard
planilhaCellCheck(w) ==
  /\ pc[w] = "cellCheck"
  /\ Call(w, "cell.get")
  /\ \E ok \in BOOLEAN :
       LET existingValue == ledger[loc[w].targetCell]
       IN  IF ~ok THEN Throw(w, "RemoteFailure") /\ UNCHANGED loc
           ELSE /\ loc' = [loc EXCEPT ![w].existingValue = existingValue]
                /\ IF existingValue # Empty
                     THEN Throw(w, "Comprovante ja existe")
                     ELSE Goto(w, "driveList")
  /\ UNCHANGED <<ledger, main, drive, inp, started, cellWrites, created>>

\* planilha: drive.files.list by name, reuse of an existing file
planilhaDriveList(w) ==
  /\ pc[w] = "driveList"
  /\ Call(w, "drive.list")
  /\ \E ok \in BOOLEAN, resp \in Responses :
       LET files == existingFiles(inp[w].fileName)
       IN  IF ~ok THEN Throw(w, "RemoteFailure") /\ UNCHANGED loc
           ELSE IF files # {}
             THEN \E existingFile \in files :
                    IF resp # "full"
                      THEN Throw(w, "Arquivo existente sem id/link")
                           /\ UNCHANGED loc
                      ELSE /\ loc' = [loc EXCEPT
                                 ![w].fileId = existingFile.id,
                                 ![w].fileLink = LinkOf(existingFile.id)]
                           /\ Goto(w, "cellUpdate")
           ELSE Goto(w, "driveCreate") /\ UNCHANGED loc
  /\ UNCHANGED <<ledger, main, drive, inp, started, cellWrites, created>>

\* planilha: drive.files.create
planilhaDriveCreate(w) ==
  /\ pc[w] = "driveCreate"
  /\ Call(w, "drive.create")
  /\ \E ok \in BOOLEAN, resp \in Responses :
       LET id == created + 1
       IN  IF ~ok
             THEN Throw(w, "RemoteFailure") /\ UNCHANGED <<drive, created, loc>>
           ELSE /\ drive' = drive \cup
                      {[id |-> id, name |-> inp[w].fileName, bytes |-> inp[w].buffer]}
                /\ created' = id
                /\ IF resp = "noLink"
                     THEN Throw(w, "Falha ao obter link") /\ UNCHANGED loc
                     ELSE /\ loc' = [loc EXCEPT
                                ![w].fileId = IF resp = "noId" THEN 0 ELSE id,
                                ![w].fileLink = LinkOf(id)]
                          /\ Goto(w, "cellUpdate")
  /\ UNCHANGED <<ledger, main, inp, started, cellWrites>>

\* Variant: a failed write is issued again
planilhaCellUpdate_retry(w) ==
  /\ pc[w] = "cellUpdate"
  /\ Call(w, "cell.update")
  /\ \E ok \in BOOLEAN :
       LET formula == hyperlink(loc[w].fileLink, inp[w].fileName)
       IN  IF ~ok
             THEN Goto(w, "cellUpdate") /\ UNCHANGED <<ledger, cellWrites, loc>>
           ELSE /\ ledger' = [ledger EXCEPT ![loc[w].targetCell] = formula]
                /\ cellWrites' = [cellWrites EXCEPT ![loc[w].targetCell] = @ + 1]
                /\ loc' = [loc EXCEPT ![w].hyperlink = formula]
                /\ Goto(w, "mainLookup")
  /\ UNCHANGED <<main, drive, inp, started, created>>

\* Variant: a failed write is not raised
planilhaCellUpdate_swallow(w) ==
  /\ pc[w] = "cellUpdate"
  /\ Call(w, "cell.update")
  /\ \E ok \in BOOLEAN :
       LET formula == hyperlink(loc[w].fileLink, inp[w].fileName)
       IN  IF ~ok
             THEN Goto(w, "mainLookup") /\ UNCHANGED <<ledger, cellWrites, loc>>
           ELSE /\ ledger' = [ledger EXCEPT ![loc[w].targetCell] = formula]
                /\ cellWrites' = [cellWrites EXCEPT ![loc[w].targetCell] = @ + 1]
                /\ loc' = [loc EXCEPT ![w].hyperlink = formula]
                /\ Goto(w, "mainLookup")
  /\ UNCHANGED <<main, drive, inp, started, created>>

\* planilha: write the HYPERLINK formula into the Ledger cell
planilhaCellUpdate(w) ==
  /\ pc[w] = "cellUpdate"
  /\ Call(w, "cell.update")
  /\ \E ok \in BOOLEAN :
       LET formula == hyperlink(loc[w].fileLink, inp[w].fileName)
       IN  IF ~ok
             THEN Throw(w, "RemoteFailure") /\ UNCHANGED <<ledger, cellWrites, loc>>
           ELSE /\ ledger' = [ledger EXCEPT ![loc[w].targetCell] = formula]
                /\ cellWrites' = [cellWrites EXCEPT ![loc[w].targetCell] = @ + 1]
                /\ loc' = [loc EXCEPT ![w].hyperlink = formula]
                /\ Goto(w, "mainLookup")
  /\ UNCHANGED <<main, drive, inp, started, created>>

\* Variant: a failed lookup in Main clears the Ledger cell again
marcarLookup_rollback(w) ==
  /\ pc[w] = "mainLookup"
  /\ Call(w, "main.get")
  /\ \E ok \in BOOLEAN :
       IF ~ok THEN Throw(w, "RemoteFailure") /\ UNCHANGED <<loc, ledger>>
       ELSE IF mainNomeIndex(inp[w].nomeCapitalizado) = -1
         THEN /\ Throw(w, "Nome nao encontrado na aba Main")
              /\ ledger' = [ledger EXCEPT ![loc[w].targetCell] = Empty]
              /\ UNCHANGED loc
       ELSE IF mainMonthIndex(inp[w].mes) = -1
         THEN /\ Throw(w, "Mes nao encontrado na aba Main")
              /\ ledger' = [ledger EXCEPT ![loc[w].targetCell] = Empty]
              /\ UNCHANGED loc
       ELSE /\ loc' = [loc EXCEPT ![w].mainCell =
                         mainCellOf(inp[w].nomeCapitalizado, inp[w].mes)]
            /\ Goto(w, "mainUpdate")
            /\ UNCHANGED ledger
  /\ UNCHANGED <<main, drive, inp, started, cellWrites, created>>

\* marcarComprovanteNaAbaMain: read names and headers of Main, resolve the cell
marcarLookup(w) ==
  /\ pc[w] = "mainLookup"
  /\ Call(w, "main.get")
  /\ \E ok \in BOOLEAN :
       IF ~ok THEN Throw(w, "RemoteFailure") /\ UNCHANGED loc
       ELSE IF mainNomeIndex(inp[w].nomeCapitalizado) = -1
         THEN Throw(w, "Nome nao encontrado na aba Main") /\ UNCHANGED loc
       ELSE IF mainMonthIndex(inp[w].mes) = -1
         THEN Throw(w, "Mes nao encontrado na aba Main") /\ UNCHANGED loc
       ELSE /\ loc' = [loc EXCEPT ![w].mainCell =
                         mainCellOf(inp[w].nomeCapitalizado, inp[w].mes)]
            /\ Goto(w, "mainUpdate")
  /\ UNCHANGED <<ledger, main, drive, inp, started, cellWrites, created>>

\* marcarComprovanteNaAbaMain: write true; planilha and processPixReceipt return
marcarUpdate(w) ==
  /\ pc[w] = "mainUpdate"
  /\ Call(w, "main.update")
  /\ \E ok \in BOOLEAN :
       IF ~ok THEN Throw(w, "RemoteFailure") /\ UNCHANGED main
       ELSE /\ main' = [main EXCEPT ![loc[w].mainCell] = TRUE]
            /\ pc' = [pc EXCEPT ![w] = "done"]
            /\ result' = [result EXCEPT ![w] = Success]
            /\ UNCHANGED raised
  /\ UNCHANGED <<ledger, drive, inp, loc, started, cellWrites, created>>

\* The caller takes the ProcessResult; the invocation is over
handleResult(w) ==
  /\ pc[w] = "done"
  /\ pc' = [pc EXCEPT ![w] = "idle"]
  /\ inp' = [inp EXCEPT ![w] = NoInput]
  /\ loc' = [loc EXCEPT ![w] = NoLocals]
  /\ result' = [result EXCEPT ![w] = NoResult]
  /\ raised' = [raised EXCEPT ![w] = "none"]
  /\ log' = [log EXCEPT ![w] = <<>>]
  /\ UNCHANGED <<ledger, main, drive, started, cellWrites, created>>

\* The steps of an intake touch neither the listener's state nor calc
IntakeStep == UNCHANGED <<calc, transportVars, startupVars, processVars>>

Next ==
  \E w \in Workers :
    \/ processPixReceipt(w) /\ IntakeStep
    \/ planilhaLookup(w) /\ IntakeStep
    \/ planilhaCellCheck(w) /\ IntakeStep
    \/ planilhaDriveList(w) /\ IntakeStep
    \/ planilhaDriveCreate(w) /\ IntakeStep
    \/ planilhaCellUpdate(w) /\ IntakeStep
    \/ marcarLookup(w) /\ IntakeStep
    \/ marcarUpdate(w) /\ IntakeStep
    \/ handleResult(w) /\ IntakeStep

Spec == Init /\ [][Next]_vars

---------------------------------------------------------------------------
(* Intakes of one batch: each is awaited before the next one starts *)

\* for (const msg of messages) { await handleMessage(...) }
NoneInProgress == \A v \in Workers : pc[v] \in {"idle", "done"}

NextSeq ==
  \E w \in Workers :
    \/ processPixReceipt(w) /\ NoneInProgress /\ IntakeStep
    \/ planilhaLookup(w) /\ IntakeStep
    \/ planilhaCellCheck(w) /\ IntakeStep
    \/ planilhaDriveList(w) /\ IntakeStep
    \/ planilhaDriveCreate(w) /\ IntakeStep
    \/ planilhaCellUpdate(w) /\ IntakeStep
    \/ marcarLookup(w) /\ IntakeStep
    \/ marcarUpdate(w) /\ IntakeStep
    \/ handleResult(w) /\ IntakeStep

SpecSeq == Init /\ [][NextSeq]_vars

---------------------------------------------------------------------------
(* The messages.upsert listener and handleMessage *)

\* The upsert types the listener handles, and one it ignores
UpsertTypes == {"notify", "append", "other"}

\* What handleMessage and extractImageMessage test of a WAMessage
Messages ==
  [fromMe : BOOLEAN, hasMessage : BOOLEAN, old : BOOLEAN,
   ignoredType : BOOLEAN, ignoredJid : BOOLEAN, hasImage : BOOLEAN,
   remoteJid : {GroupJid, "other@g.us"}]

\* Variant: the filter on the configured group is missing
Dropped_anyChat(msg) ==
  \/ msg.fromMe
  \/ ~msg.hasMessage
  \/ msg.old
  \/ msg.ignoredType
  \/ msg.ignoredJid
  \/ groupJid = ""

\* handleMessage: the returns before the try block
Dropped(msg) ==
  \/ msg.fromMe
  \/ ~msg.hasMessage
  \/ msg.old
  \/ msg.ignoredType
  \/ msg.ignoredJid
  \/ groupJid = ""
  \/ msg.remoteJid # groupJid

\* The errors processPixReceipt may report
ErrorMessages ==
  {"Arquivo nao encontrado", "Erro na API Groq", "Erro de rede ao conectar Groq",
   "Nome nao encontrado", "Coluna nao encontrada", "Comprovante ja existe",
   "Arquivo existente sem id/link", "Falha ao obter link",
   "Nome nao encontrado na aba Main", "Mes nao encontrado na aba Main",
   "RemoteFailure"}

\* What processPixReceipt may resolve to
ProcessResults == {Success, NotPix} \cup {Catch(m) : m \in ErrorMessages}

\* Messages received so far or waiting in a batch
Announced ==
  metrics.messagesReceived
    + Cardinality({<<h, i>> \in Handlers \X (1..MaxBatch) : i <= left[h]})

\* return from handleMessage: the loop goes on to the next message
NextMessage(h) ==
  /\ hpc' = [hpc EXCEPT ![h] = "loop"]
  /\ left' = [left EXCEPT ![h] = @ - 1]
  /\ cur' = [cur EXCEPT ![h] = NoMessage]

Bump(counter) == metrics' = [metrics EXCEPT ![counter] = @ + 1]

\* sock.ev.on("messages.upsert", ...): the listener is called with a batch
onMessagesUpsert(h) ==
  /\ hpc[h] = "idle"
  /\ \A g \in 1..(h - 1) : hpc[g] # "idle"
  /\ \E type \in UpsertTypes, n \in 0..MaxBatch :
       /\ Announced + n <= MaxReceived
       /\ IF type # "notify" /\ type # "append"
            THEN UNCHANGED <<hpc, left, batch, handled>>
            ELSE /\ hpc' = [hpc EXCEPT ![h] = "loop"]
                 /\ left' = [left EXCEPT ![h] = n]
                 /\ batch' = [batch EXCEPT ![h] = n]
                 /\ handled' = [handled EXCEPT ![h] = <<>>]
  /\ UNCHANGED <<groupJid, inflight, metrics, res, cur>>

\* Variant: a message is counted only once it has passed the filters
handleMessage_countAfterFilters(h) ==
  /\ hpc[h] = "loop" /\ left[h] > 0
  /\ handled' = [handled EXCEPT ![h] = Append(@, batch[h] - left[h] + 1)]
  /\ \E msg \in Messages :
       IF Dropped(msg)
         THEN NextMessage(h) /\ UNCHANGED metrics
         ELSE /\ hpc' = [hpc EXCEPT ![h] = "save"]
              /\ cur' = [cur EXCEPT ![h] = msg]
              /\ Bump("messagesReceived")
              /\ UNCHANGED left
  /\ UNCHANGED <<groupJid, inflight, res, batch>>

\* handleMessage up to its first await
handleMessage(h) ==
  /\ hpc[h] = "loop" /\ left[h] > 0
  /\ Bump("messagesReceived")
  /\ handled' = [handled EXCEPT ![h] = Append(@, batch[h] - left[h] + 1)]
  /\ \E msg \in Messages :
       IF Dropped(msg)
         THEN NextMessage(h)
         ELSE /\ hpc' = [hpc EXCEPT ![h] = "save"]
              /\ cur' = [cur EXCEPT ![h] = msg]
              /\ UNCHANGED left
  /\ UNCHANGED <<groupJid, inflight, res, batch>>

\* Variant: processPixReceipt is called and not awaited
afterSaveIncomingImage_noAwait(h) ==
  /\ hpc[h] = "save"
  /\ \E outcome \in IF cur[h].hasImage THEN {"throws", "image"} ELSE {"none"} :
       /\ IF outcome = "throws" THEN Bump("errors") ELSE UNCHANGED metrics
       /\ IF outcome = "image"
            THEN inflight' = [inflight EXCEPT ![h] = @ + 1]
            ELSE UNCHANGED inflight
       /\ NextMessage(h)
  /\ UNCHANGED <<groupJid, res, batch, handled>>

\* handleMessage from the return of saveIncomingImage to the next await
afterSaveIncomingImage(h) ==
  /\ hpc[h] = "save"
  /\ \E outcome \in IF cur[h].hasImage THEN {"throws", "image"} ELSE {"none"} :
       CASE outcome = "none" ->
              NextMessage(h) /\ UNCHANGED <<inflight, metrics>>
         [] outcome = "throws" ->
              NextMessage(h) /\ Bump("errors") /\ UNCHANGED inflight
         [] outcome = "image" ->
              /\ hpc' = [hpc EXCEPT ![h] = "process"]
              /\ inflight' = [inflight EXCEPT ![h] = @ + 1]
              /\ UNCHANGED <<left, metrics, cur>>
  /\ UNCHANGED <<groupJid, res, batch, handled>>

\* Variant: an intake that fails ends the loop over the batch
afterProcessPixReceipt_breakOnError(h) ==
  /\ hpc[h] = "process"
  /\ \E r \in ProcessResults :
       /\ res' = [res EXCEPT ![h] = r]
       /\ IF ~r.success
            THEN IF r.reason = "not-pix" THEN UNCHANGED metrics ELSE Bump("errors")
            ELSE Bump("messagesProcessed")
       /\ hpc' = [hpc EXCEPT ![h] = "loop"]
       /\ cur' = [cur EXCEPT ![h] = NoMessage]
       /\ left' = [left EXCEPT ![h] = IF r.reason = "error" THEN 0 ELSE @ - 1]
  /\ inflight' = [inflight EXCEPT ![h] = @ - 1]
  /\ UNCHANGED <<groupJid, batch, handled>>

\* handleMessage from the return of processPixReceipt to its end
afterProcessPixReceipt(h) ==
  /\ hpc[h] = "process"
  /\ \E r \in ProcessResults :
       /\ res' = [res EXCEPT ![h] = r]
       /\ IF ~r.success
            THEN IF r.reason = "not-pix" THEN UNCHANGED metrics ELSE Bump("errors")
            ELSE Bump("messagesProcessed")
  /\ inflight' = [inflight EXCEPT ![h] = @ - 1]
  /\ NextMessage(h)
  /\ UNCHANGED <<groupJid, batch, handled>>

\* the for loop of the listener has handled the whole batch
listenerReturns(h) ==
  /\ hpc[h] = "loop" /\ left[h] = 0
  /\ hpc' = [hpc EXCEPT ![h] = "idle"]
  /\ UNCHANGED <<groupJid, left, inflight, metrics, res, cur, batch, handled>>

InitTransport ==
  /\ IntakeInit
  /\ calc = NoCalc
  /\ groupJid \in {"", GroupJid}
  /\ ListenerInit
  /\ Started
  /\ ProcessInit

TransportStep == UNCHANGED <<intakeVars, calc, startupVars, processVars>>

NextTransport ==
  \E h \in Handlers :
    \/ onMessagesUpsert(h) /\ TransportStep
    \/ handleMessage(h) /\ TransportStep
    \/ afterSaveIncomingImage(h) /\ TransportStep
    \/ afterProcessPixReceipt(h) /\ TransportStep
    \/ listenerReturns(h) /\ TransportStep

SpecTransport == InitTransport /\ [][NextTransport]_vars

---------------------------------------------------------------------------
(* The start of the process: module load, validateConfig, startWhatsApp *)

\* Variant: a missing variable is not noticed when the configuration is read
requireEnv_lazy(e, name) == TRUE

\* requireEnv: the variable has a non-empty value
requireEnv(e, name) == e[name] = "set"

\* The first variable on which requireEnv throws, when config.ts is evaluated
FirstMissing(e) ==
  LET i == CHOOSE i \in DOMAIN RequiredEnv :
             /\ ~requireEnv(e, RequiredEnv[i])
             /\ \A j \in 1..(i - 1) : requireEnv(e, RequiredEnv[j])
  IN  RequiredEnv[i]

Stage(stage, error) == boot' = [stage |-> stage, error |-> error]

\* import of config.js: GOOGLE_CONFIG and AI_CONFIG are evaluated
loadConfig ==
  /\ boot.stage = "load"
  /\ IF \E i \in DOMAIN RequiredEnv : ~requireEnv(env, RequiredEnv[i])
       THEN Stage("failed", FirstMissing(env))
       ELSE Stage("loaded", "none")
  /\ UNCHANGED <<env, transportVars>>

\* validateConfig(), called when whatsapp.ts is evaluated
validateConfig ==
  /\ boot.stage = "loaded"
  /\ \E valid \in BOOLEAN :
       IF valid THEN Stage("validated", "none") ELSE Stage("failed", "invalid")
  /\ UNCHANGED <<env, transportVars>>

\* startWhatsApp: connect() up to the registration of the listeners
connect ==
  /\ boot.stage = "validated"
  /\ \E ok \in BOOLEAN :
       IF ok THEN Stage("open", "none") ELSE Stage("failed", "startup")
  /\ UNCHANGED <<env, transportVars>>

\* the listeners exist once connect() has registered them
Listening == boot.stage = "open"

InitStartup ==
  /\ IntakeInit
  /\ calc = NoCalc
  /\ groupJid \in {"", GroupJid}
  /\ ListenerInit
  /\ env \in [RequiredNames -> {"unset", "empty", "set"}]
  /\ boot = [stage |-> "load", error |-> "none"]
  /\ ProcessInit

StartupStep == UNCHANGED <<intakeVars, calc, processVars>>

ListenerStep ==
  Listening /\ UNCHANGED <<intakeVars, calc, startupVars, processVars>>

NextStartup ==
  \/ loadConfig /\ StartupStep
  \/ validateConfig /\ StartupStep
  \/ connect /\ StartupStep
  \/ \E h \in Handlers :
       \/ onMessagesUpsert(h) /\ ListenerStep
       \/ handleMessage(h) /\ ListenerStep
       \/ afterSaveIncomingImage(h) /\ ListenerStep
       \/ afterProcessPixReceipt(h) /\ ListenerStep
       \/ listenerReturns(h) /\ ListenerStep

SpecStartup == InitStartup /\ [][NextStartup]_vars

---------------------------------------------------------------------------
(* The pure functions, applied to arguments drawn from bounded sets *)

MarcoPlain == <<"M", "a", "r", "c", "o">>
MarcoLower == <<"m", "a", "r", "c_ced", "o">>
Joao == <<"J", "o", "a_til", "o">>
JoaoPlain == <<"J", "o", "a", "o">>
JoaoUpper == <<"J", "O", "A_til", "O">>

\* Labels a header row B1:L1 may hold
HeaderLabels ==
  { CompPrefix \o Marco, CompPrefix \o MarcoPlain, CompPrefix \o MarcoLower,
    Marco, CompPrefix \o Janeiro, Null }

\* Labels a name column A2:A29 may hold
NameLabels ==
  { Ana, <<"A", "N", "A", " ">>, Joao, JoaoPlain, JoaoUpper, Null }

\* Names processPixReceipt may look up
TargetNames == { Ana, Joao, JoaoPlain, <<>> }

SeqsUpTo(S, n) == UNION { [1..k -> S] : k \in 0..n }

\* choices[0].message.content is the empty string
EmptyContent == [kind |-> "content", text |-> <<>>]

FindColumnInputs ==
  { [op |-> "findColumn", args |-> <<headers, mes>>, applied |-> FALSE, out |-> <<>>] :
      headers \in SeqsUpTo(HeaderLabels, MaxLabels), mes \in Months }

FindRowInputs ==
  { [op |-> "findRow", args |-> <<names, nome>>, applied |-> FALSE, out |-> <<>>] :
      names \in SeqsUpTo(NameLabels, MaxLabels), nome \in TargetNames }

CellInputs ==
  { [op |-> "cell", args |-> <<c, r>>, applied |-> FALSE, out |-> <<>>] :
      c \in 0..(monthEndColCode - monthStartColCode),
      r \in 0..(nameEndRow - nameStartRow) }

ReadImageInputs ==
  { [op |-> "read_image", args |-> <<o>>, applied |-> FALSE, out |-> <<>>] :
      o \in GroqOutcomes \cup {EmptyContent} }

Silva == <<"S", "i", "l", "v", "a">>

\* Capitalized payer names of which processPixReceipt takes the first name
CapitalizedNames ==
  { Ana, AnaB, Joao \o <<" ">> \o Silva, Joao \o <<" ", " ">> \o Silva,
    Ana \o <<"TAB">> \o Silva }

\* Extensions with and without the leading dot
DotExtensions == Extensions \cup { <<".">> \o e : e \in Extensions }

\* Answers of the vision model that capitalizeName receives
SpokenNames ==
  RawNames \cup
    { <<"J", "O", "S", "E_acu", " ", "D", "E", " ", "S", "O", "U", "Z", "A">>,
      <<"m", "a", "r", "i", "a", " ", "s", "a", "n", "t", "o", "s">>,
      <<"j", "O", "A_til", "O", " ", " ", "s", "I", "L", "V", "A">>,
      <<"A", "N", "A", "TAB", "s", "i", "l", "v", "a">>,
      <<>> }

\* Labels and names that normalizeText receives
NormalizeTexts ==
  (HeaderLabels \ {Null}) \cup (NameLabels \ {Null}) \cup SpokenNames \cup
    { <<" ", "J", "O", "A_til", "O", "TAB">>,
      <<"a", "U0303", "o">>,
      <<"U0301", " ", "a", " ", "U0327">>,
      <<" ", "U0303", " ">> }

FileNameInputs ==
  { [op |-> "nomeFormatado", args |-> <<nome, mes, ext>>, applied |-> FALSE, out |-> <<>>] :
      nome \in CapitalizedNames, mes \in Months, ext \in DotExtensions }

CapitalizeInputs ==
  { [op |-> "capitalizeName", args |-> <<name>>, applied |-> FALSE, out |-> <<>>] :
      name \in SpokenNames }

NormalizeInputs ==
  { [op |-> "normalizeText", args |-> <<text>>, applied |-> FALSE, out |-> <<>>] :
      text \in NormalizeTexts }

InitPure ==
  /\ IntakeInit
  /\ groupJid = GroupJid
  /\ ListenerInit
  /\ Started
  /\ ProcessInit
  /\ \/ calc \in FindColumnInputs
     \/ calc \in FindRowInputs
     \/ calc \in CellInputs
     \/ calc \in ReadImageInputs
     \/ calc \in FileNameInputs
     \/ calc \in CapitalizeInputs
     \/ calc \in NormalizeInputs

Apply(value) == calc' = [calc EXCEPT !.applied = TRUE, !.out = value]

\* The two column lookups on one header row
findColumn ==
  /\ calc.op = "findColumn" /\ ~calc.applied
  /\ Apply([ledger |-> ledgerFindColumn(calc.args[1], calc.args[2]),
            main |-> mainFindColumn(calc.args[1], calc.args[2])])

\* The two row lookups on one name column
findRow ==
  /\ calc.op = "findRow" /\ ~calc.applied
  /\ Apply([ledger |-> ledgerFindRow(calc.args[1], calc.args[2]),
            main |-> mainFindRow(calc.args[1], calc.args[2])])

\* const targetCell = `${colLetter}${rowNumber}`
cellAddress ==
  /\ calc.op = "cell" /\ ~calc.applied
  /\ Apply(<<getColumnFromOffset(calc.args[1]), calc.args[2] + nameStartRow>>)

readImage ==
  /\ calc.op = "read_image" /\ ~calc.applied
  /\ Apply(read_image(calc.args[1]))

fileName ==
  /\ calc.op = "nomeFormatado" /\ ~calc.applied
  /\ Apply(nomeFormatado(calc.args[1], calc.args[2], calc.args[3]))

\* capitalizeName, and capitalizeName of its result
capitalize ==
  /\ calc.op = "capitalizeName" /\ ~calc.applied
  /\ Apply([once |-> capitalizeName(calc.args[1]),
            twice |-> capitalizeName(capitalizeName(calc.args[1]))])

\* normalizeText, and normalizeText of its result
normalize ==
  /\ calc.op = "normalizeText" /\ ~calc.applied
  /\ Apply([once |-> normalizeText(calc.args[1]),
            twice |-> normalizeText(normalizeText(calc.args[1]))])

PureStep == UNCHANGED <<intakeVars, transportVars, startupVars, processVars>>

NextPure ==
  \/ findColumn /\ PureStep
  \/ findRow /\ PureStep
  \/ cellAddress /\ PureStep
  \/ readImage /\ PureStep
  \/ fileName /\ PureStep
  \/ capitalize /\ PureStep
  \/ normalize /\ PureStep

SpecPure == InitPure /\ [][NextPure]_vars

---------------------------------------------------------------------------
(* The connection: connect, handleConnectionUpdate, scheduleReconnect,   *)
(* shutdown; and getAuthClient, called by planilha in the same process     *)

Running == conn.proc = "running"

\* Variant: a timer is set whatever the state of the previous one
scheduleReconnect_noGuard(c) ==
  [c EXCEPT !.reconnectTimer = "set", !.timers = @ + 1]

\* scheduleReconnect, up to setTimeout
scheduleReconnect(c) ==
  IF c.isShuttingDown \/ c.reconnectTimer # "null"
    THEN c
    ELSE [c EXCEPT !.reconnectTimer = "set", !.timers = @ + 1]

\* Variant: the limit of attempts is not enforced
handleConnectionUpdate_noLimit(c, connection, loggedOut) ==
  IF connection = "open"
    THEN [c EXCEPT !.attempts = 0, !.connected = TRUE]
  ELSE IF connection = "close"
    THEN IF loggedOut
           THEN [c EXCEPT !.connected = FALSE, !.proc = "exit1"]
           ELSE scheduleReconnect(
                  [c EXCEPT !.connected = FALSE, !.attempts = @ + 1,
                            !.reconnections = @ + 1])
  ELSE c

\* handleConnectionUpdate; process.exit(1) ends the handler where it is called
handleConnectionUpdate(c, connection, loggedOut) ==
  IF connection = "open"
    THEN [c EXCEPT !.attempts = 0, !.connected = TRUE]
  ELSE IF connection = "close"
    THEN IF loggedOut
           THEN [c EXCEPT !.connected = FALSE, !.proc = "exit1"]
           ELSE LET d == [c EXCEPT !.connected = FALSE, !.attempts = @ + 1,
                                   !.reconnections = @ + 1]
                IN  IF d.attempts > maxReconnectAttempts
                      THEN [d EXCEPT !.proc = "exit1"]
                      ELSE scheduleReconnect(d)
  ELSE c

\* connect() up to its first await: it returns at once during shutdown,
\* otherwise it ends the previous socket and waits; await names the counter
\* of the calls suspended there
connectEnter(c, await) ==
  IF c.isShuttingDown
    THEN [c EXCEPT !.connectCalls = @ + 1]
    ELSE [c EXCEPT !.connectCalls = @ + 1, !.currentSock = 0, ![await] = @ + 1]

\* await connect(), the last statement of startWhatsApp
startWhatsApp ==
  /\ Running /\ conn.connectCalls = 0
  /\ conn' = connectEnter(conn, "starting")
  /\ UNCHANGED <<auth, transportVars>>

\* connect() after its awaits: makeWASocket, or a rejection, which ends the
\* process for the first call and is counted and logged for a reconnect
connectAfterAwait ==
  /\ Running
  /\ \E await \in {"starting", "reconnecting"}, ok \in BOOLEAN :
       /\ conn[await] > 0
       /\ IF ok
            THEN /\ conn' = [conn EXCEPT ![await] = @ - 1, !.sockets = @ + 1,
                                         !.currentSock = conn.sockets + 1]
                 /\ UNCHANGED metrics
            ELSE IF await = "starting"
              THEN /\ conn' = [conn EXCEPT ![await] = @ - 1, !.proc = "exit1"]
                   /\ UNCHANGED metrics
              ELSE /\ conn' = [conn EXCEPT ![await] = @ - 1]
                   /\ Bump("errors")
  /\ UNCHANGED <<auth, groupJid, hpc, left, inflight, res, cur, batch, handled>>

\* sock.ev.on("connection.update", ...): an event of a socket made so far
connectionUpdate ==
  /\ Running /\ conn.sockets > 0
  /\ \E connection \in {"open", "close", "connecting"}, loggedOut \in BOOLEAN :
       /\ connection = "close" =>
            /\ conn.reconnections < MaxCloses
            /\ conn.connectCalls + conn.timers < MaxConnects
       /\ conn' = handleConnectionUpdate(conn, connection, loggedOut)
  /\ UNCHANGED <<auth, transportVars>>

\* Variant: the callback of the timer does not call connect()
timerFires_lost ==
  /\ Running /\ conn.timers > 0
  /\ conn' = [conn EXCEPT !.reconnectTimer = "null", !.timers = @ - 1]
  /\ UNCHANGED <<auth, transportVars>>

\* the callback given to setTimeout by scheduleReconnect
timerFires ==
  /\ Running /\ conn.timers > 0
  /\ conn' = connectEnter(
               [conn EXCEPT !.reconnectTimer = "null", !.timers = @ - 1],
               "reconnecting")
  /\ UNCHANGED <<auth, transportVars>>

\* shutdown, on SIGINT or SIGTERM: without a health server the process exits
\* in the handler, with one it exits when the server has closed
shutdown ==
  /\ Running
  /\ IF conn.isShuttingDown
       THEN UNCHANGED conn
       ELSE conn' = [conn EXCEPT
                       !.isShuttingDown = TRUE,
                       !.timers = IF conn.reconnectTimer = "set" /\ @ > 0
                                    THEN @ - 1 ELSE @,
                       !.proc = IF conn.healthServer THEN "running" ELSE "exit0"]
  /\ UNCHANGED <<auth, transportVars>>

\* healthServer.close callback, or the 5 s timer set by shutdown
healthServerClosed ==
  /\ Running /\ conn.isShuttingDown /\ conn.healthServer
  /\ conn' = [conn EXCEPT !.proc = "exit0"]
  /\ UNCHANGED <<auth, transportVars>>

\* Variant: a client is created at every call
getAuthClient_noCache(a) ==
  [cachedAuth |-> a.created + 1, created |-> a.created + 1,
   returned |-> Append(a.returned, a.created + 1)]

\* getAuthClient: the clients are numbered in the order of their creation
getAuthClient(a) ==
  IF a.cachedAuth = 0
    THEN [cachedAuth |-> a.created + 1, created |-> a.created + 1,
          returned |-> Append(a.returned, a.created + 1)]
    ELSE [a EXCEPT !.returned = Append(@, a.cachedAuth)]

\* planilha calls getAuthClient(); createOAuth2Client throws without the token
planilhaAuth ==
  /\ Running /\ Len(auth.returned) < MaxAuthCalls
  /\ IF requireEnv(env, "GOOGLE_REFRESH_TOKEN")
       THEN auth' = getAuthClient(auth)
       ELSE UNCHANGED auth
  /\ UNCHANGED <<conn, transportVars>>

InitProcess ==
  /\ IntakeInit
  /\ calc = NoCalc
  /\ groupJid = GroupJid
  /\ ListenerInit
  /\ env = [name \in RequiredNames |-> "set"]
  /\ boot = [stage |-> "open", error |-> "none"]
  /\ conn \in {NoConn(TRUE), NoConn(FALSE)}
  /\ auth = NoAuth

ProcessStep == UNCHANGED <<intakeVars, calc, startupVars>>

NextProcess ==
  \/ startWhatsApp /\ ProcessStep
  \/ connectAfterAwait /\ ProcessStep
  \/ connectionUpdate /\ ProcessStep
  \/ timerFires /\ ProcessStep
  \/ shutdown /\ ProcessStep
  \/ healthServerClosed /\ ProcessStep
  \/ planilhaAuth /\ ProcessStep

SpecProcess == InitProcess /\ [][NextProcess]_vars

\* Timers fire: a callback that is due is eventually run
SpecProcessFair == SpecProcess /\ WF_vars(timerFires /\ ProcessStep)

---------------------------------------------------------------------------
(* Properties *)

InLog(w, name) == \E i \in DOMAIN log[w] : log[w][i] = name

\* Position of the first call of that name in the intake's log, 0 if none
CallIndex(w, name) ==
  IF InLog(w, name)
    THEN CHOOSE i \in DOMAIN log[w] :
           log[w][i] = name /\ \A j \in 1..(i - 1) : log[w][j] # name
    ELSE 0

ArtifactCalls == {"drive.list", "drive.create"}

\* C1 - Duplicate guard: an intake whose read of the resolved Ledger cell
\* returned a non-empty value ends with the "receipt already exists" error
\* having issued no Drive list, no Drive create, no Ledger cell write and no
\* Summary View write; and in every intake the cell read precedes any Drive
\* call.
C1_DuplicateGuard ==
  \A w \in Workers :
    /\ loc[w].existingValue # Empty =>
         /\ pc[w] = "done"
         /\ result[w] = Failure("Comprovante ja existe")
         /\ log[w] = <<"groq.create", "ledger.get", "cell.get">>
    /\ \A i \in DOMAIN log[w] :
         log[w][i] \in ArtifactCalls =>
           \E j \in 1..(i - 1) : log[w][j] = "cell.get"

C1_Witness ==
  \E w \in Workers :
    /\ pc[w] = "done"
    /\ loc[w].existingValue # Empty
    /\ result[w].error = "Comprovante ja existe"

\* C2 - Each Ledger cell is written by this system at most once, however the
\* remote calls of the intakes interleave.
C2_CellWrittenAtMostOnce == \A c \in LedgerCells : cellWrites[c] <= 1

\* C3 - Sentinel passthrough: when read_image returned the "not a receipt"
\* sentinel, processPixReceipt returns {success: false, reason: 'not-pix'}
\* and the intake has issued no call besides the classifier call.
C3_SentinelPassthrough ==
  \A w \in Workers :
    inp[w].nome = NaoEPix =>
      /\ pc[w] = "done"
      /\ result[w] = NotPix
      /\ log[w] = <<"groq.create">>

C3_Witness ==
  \E w \in Workers : pc[w] = "done" /\ inp[w].nome = NaoEPix /\ drive # {}

\* C4 - Artifact dedup by name: a step of the list query taken while the
\* folder holds a file of exactly the requested name never leads to a create;
\* when it goes on, the id and link are those of such a file and the folder
\* is unchanged, whatever bytes were submitted.
C4_DedupByName ==
  [][\A w \in Workers :
       (/\ pc[w] = "driveList"
        /\ pc'[w] # "driveList"
        /\ \E f \in drive : f.name = inp[w].fileName)
       => /\ pc'[w] \in {"cellUpdate", "done"}
          /\ drive' = drive
          /\ pc'[w] = "cellUpdate" =>
               \E f \in drive :
                 /\ f.name = inp[w].fileName
                 /\ loc'[w].fileId = f.id
                 /\ loc'[w].fileLink = LinkOf(f.id)]_vars

\* An intake reuses a file whose stored bytes differ from the submitted ones
C4_Witness ==
  \E w \in Workers :
    /\ pc[w] = "cellUpdate"
    /\ ~InLog(w, "drive.create")
    /\ \E f \in drive :
         /\ f.id = loc[w].fileId
         /\ f.name = inp[w].fileName
         /\ f.bytes # inp[w].buffer

\* C5 - The folder holds at most one artifact created by this system per
\* distinct name, however the intakes interleave.
C5_OneArtifactPerName ==
  \A f \in drive : \A g \in drive : f.name = g.name => f.id = g.id

\* The capitalized names and months an intake may carry
Payers == {capitalizeName(n) : n \in RawNames}

RowMatches(names, nome) ==
  \E i \in 1..Len(names) : normalizeText(names[i]) = normalizeText(nome)

LedgerColumnMatches(mes) ==
  \E i \in 1..Len(LedgerHeaders) :
    includes(LedgerHeaders[i], mes) /\ includes(LedgerHeaders[i], CompMarker)

MainColumnMatches(mes) ==
  \E i \in 1..Len(MainHeaders) :
    includes(normalizeText(MainHeaders[i]), normalizeText(mes))

NoLedgerRow == {nome \in Payers : ~RowMatches(LedgerNames, nome)}

NoLedgerColumn == {mes \in Months : ~LedgerColumnMatches(mes)}

\* The payers and periods whose Summary View cell is c
MarkedBy(c) ==
  {p \in Payers \X Months :
     /\ RowMatches(MainNames, p[1])
     /\ MainColumnMatches(p[2])
     /\ mainCellOf(p[1], p[2]) = c}

\* C6 - A Summary View cell marked by this system implies that the Ledger
\* cell of the same payer and period is filled.
C6_MarkImpliesLedgerFilled ==
  \A c \in MainCells :
    main[c] =>
      \A p \in MarkedBy(c) :
        /\ RowMatches(LedgerNames, p[1])
        /\ LedgerColumnMatches(p[2])
        /\ ledger[targetCellOf(p[1], p[2])] # Empty

C6_Witness == \E c \in MainCells : main[c] /\ MarkedBy(c) # {}

\* C7 - processPixReceipt never throws: an invocation that is over has
\* returned a ProcessResult; every error raised inside it is returned as
\* {success: false, reason: 'error', error: <message>}; 'not-pix' is returned
\* exactly when the classifier returned the sentinel.
C7_ErrorsAreReturned ==
  \A w \in Workers :
    pc[w] = "done" =>
      /\ result[w] \in {Success, NotPix} \cup {Failure(raised[w])}
      /\ raised[w] # "none" => result[w] = Failure(raised[w])
      /\ result[w].reason = "error" => raised[w] # "none"
      /\ result[w].reason = "not-pix" <=> inp[w].nome = NaoEPix

\* Errors of the classifier and of planilha are both returned
C7_Witness ==
  /\ pc[1] = "done" /\ raised[1] = "Erro na API Groq"
  /\ pc[2] = "done" /\ raised[2] = "Falha ao obter link"

\* C8 - End-to-end success: success: true is returned only if, in the same
\* intake, the Ledger cell of the payer's row and the period's 'Comp' column
\* was read as empty and was written with the HYPERLINK formula of the
\* artifact's link and the file name joined by the configured separator, and
\* after that the Summary View cell of the same payer and period was set.
C8_SuccessEndToEnd ==
  \A w \in Workers :
    (pc[w] = "done" /\ result[w].success) =>
      LET nome == inp[w].nomeCapitalizado
          mes == inp[w].mes
          cell == loc[w].targetCell
      IN  /\ \E r \in 1..Len(LedgerNames), c \in 1..Len(LedgerHeaders) :
               /\ normalizeText(LedgerNames[r]) = normalizeText(nome)
               /\ includes(LedgerHeaders[c], mes)
               /\ includes(LedgerHeaders[c], CompMarker)
               /\ cell = <<UpperChars[c + 1], nameStartRow + r - 1>>
          /\ InLog(w, "cell.get") /\ loc[w].existingValue = Empty
          /\ \E f \in drive :
               /\ f.name = inp[w].fileName
               /\ loc[w].hyperlink =
                    <<"=HYPERLINK(", "QUOTE">> \o LinkOf(f.id) \o <<"QUOTE">>
                      \o formulaSeparator
                      \o <<"QUOTE">> \o inp[w].fileName \o <<"QUOTE", ")">>
          /\ cellWrites[cell] >= 1 /\ ledger[cell] # Empty
          /\ 0 < CallIndex(w, "cell.update")
          /\ CallIndex(w, "cell.update") < CallIndex(w, "main.update")
          /\ main[mainCellOf(nome, mes)]

C8_Witness ==
  \E w \in Workers :
    /\ pc[w] = "done" /\ result[w].success
    /\ inp[w].nomeCapitalizado = Ana /\ inp[w].mes = Fevereiro
    /\ loc[w].targetCell = <<"C", 2>>

\* C9 - When the row or column lookup in the Summary View fails, the intake
\* ends with that error, the Ledger cell written earlier in the same intake
\* stays filled, and the intake has written no Summary View cell.
C9_NoRollback ==
  \A w \in Workers :
    (/\ pc[w] = "done"
     /\ result[w].error \in {"Nome nao encontrado na aba Main",
                             "Mes nao encontrado na aba Main"})
    => /\ ~result[w].success /\ result[w].reason = "error"
       /\ InLog(w, "cell.update") /\ loc[w].hyperlink # Empty
       /\ ledger[loc[w].targetCell] # Empty
       /\ ~InLog(w, "main.update")
       /\ ~(/\ RowMatches(MainNames, inp[w].nomeCapitalizado)
            /\ MainColumnMatches(inp[w].mes))

\* Both lookups fail: one intake on the row, the other on the column
C9_Witness ==
  /\ pc[1] = "done" /\ result[1].error = "Nome nao encontrado na aba Main"
  /\ pc[2] = "done" /\ result[2].error = "Mes nao encontrado na aba Main"

\* C10 - An intake whose payer name matches no Ledger row label, or whose
\* period matches no Ledger header, ends at the lookup: it fails with the
\* row-not-found or column-not-found error (the row is resolved first),
\* having read no cell and issued no Drive call, no Ledger write and no
\* Summary View write.
C10_NotFoundStopsIntake ==
  \A w \in Workers :
    LET noRow == inp[w].nomeCapitalizado \in NoLedgerRow
        noCol == inp[w].mes \in NoLedgerColumn
    IN  /\ (pc[w] \notin {"idle", "lookup"} /\ inp[w].mes # Empty
              /\ (noRow \/ noCol))
           => /\ pc[w] = "done"
              /\ log[w] = <<"groq.create", "ledger.get">>
              /\ result[w].error \in
                   {"Nome nao encontrado", "Coluna nao encontrada", "RemoteFailure"}
        /\ result[w].error = "Nome nao encontrado" => noRow
        /\ result[w].error = "Coluna nao encontrada" => ~noRow /\ noCol

C10_Witness ==
  /\ pc[1] = "done" /\ result[1].error = "Nome nao encontrado"
  /\ pc[2] = "done" /\ result[2].error = "Coluna nao encontrada"

---------------------------------------------------------------------------
(* Properties of the lookups and of the classifier's error handling *)

Applied(op) == calc.op = op /\ calc.applied

\* 0-based index of the first position of 1..n that satisfies M, or -1
FirstIndex(n, M(_)) ==
  IF \E i \in 1..n : M(i)
    THEN (CHOOSE i \in 1..n : M(i) /\ \A j \in 1..(i - 1) : ~M(j)) - 1
    ELSE -1

\* C11 - The Ledger column lookup returns the first header whose normalized
\* label contains the normalized period name and whose raw label contains
\* "Comp", or not-found when there is none; so a header that differs from the
\* period name only in letter case or diacritics is found.
C11_LedgerColumnNormalized ==
  Applied("findColumn") =>
    LET headers == calc.args[1]
        mes == calc.args[2]
        M(i) == /\ includes(normalizeText(orEmpty(headers[i])), normalizeText(mes))
                /\ includes(orEmpty(headers[i]), CompMarker)
    IN  calc.out.ledger = FirstIndex(Len(headers), M)

\* C12 - The Ledger column lookup never returns a header whose raw label lacks
\* "Comp", and finds nothing when no header has it, even if a header contains
\* the period name; the Summary View lookup returns the first header whose
\* normalized label contains the normalized period name, marker or not.
C12_MarkerRequired ==
  Applied("findColumn") =>
    LET headers == calc.args[1]
        mes == calc.args[2]
        Marked(i) == includes(orEmpty(headers[i]), CompMarker)
        Named(i) == includes(normalizeText(orEmpty(headers[i])), normalizeText(mes))
    IN  /\ calc.out.ledger # -1 => Marked(calc.out.ledger + 1)
        /\ (\A i \in 1..Len(headers) : ~Marked(i)) => calc.out.ledger = -1
        /\ calc.out.main = FirstIndex(Len(headers), Named)

C12_Witness ==
  /\ Applied("findColumn")
  /\ calc.args = << <<Marco>>, Marco >>
  /\ calc.out.ledger = -1
  /\ calc.out.main = 0

\* The letter a character stands for once case and diacritics are set aside
BaseLetter(c) ==
  CASE c \in {"a_til", "A_til"} -> "a"
    [] c \in {"c_ced", "C_ced"} -> "c"
    [] c \in {"e_acu", "E_acu"} -> "e"
    [] IndexIn(c, UpperChars) \in 1..26 -> LowerChars[IndexIn(c, UpperChars)]
    [] OTHER -> c

\* Two labels are the same name up to case, diacritics and outer blanks
SameName(a, b) ==
  trim([i \in 1..Len(a) |-> BaseLetter(a[i])]) =
    trim([i \in 1..Len(b) |-> BaseLetter(b[i])])

\* C13 - The row lookup returns the first index whose label equals the target
\* up to letter case and diacritics, a missing label counting as the empty
\* string, or not-found when no label does; the Ledger and the Summary View
\* lookups give the same answer.
C13_RowResolution ==
  Applied("findRow") =>
    LET names == calc.args[1]
        nome == calc.args[2]
        M(i) == SameName(IF names[i] = Null THEN <<>> ELSE names[i], nome)
    IN  /\ calc.out.ledger = FirstIndex(Len(names), M)
        /\ calc.out.main = calc.out.ledger

C13_Witness ==
  /\ Applied("findRow")
  /\ calc.args = << <<Null, JoaoUpper>>, JoaoPlain >>
  /\ calc.out.ledger = 1
  /\ calc.out.main = 1

\* C14 - The target cell of header index c and row index r is the letter c
\* positions after B (B for 0, L for 10) followed by the row nameStartRow + r,
\* and every index of the header range B..L gives a letter of B..L.
C14_CellAddress ==
  Applied("cell") =>
    LET c == calc.args[1]
        r == calc.args[2]
    IN  /\ calc.out = <<UpperChars[2 + c], nameStartRow + r>>
        /\ calc.out[1] \in {"B", "C", "D", "E", "F", "G", "H", "I", "J", "K", "L"}
        /\ c = 0 => calc.out[1] = "B"
        /\ c = 10 => calc.out[1] = "L"

C14_Witness ==
  /\ Applied("cell")
  /\ calc.args = <<10, 27>>
  /\ calc.out = <<"L", 29>>

\* The error read_image raises for each of its three classes of failure
ClassMessage(class) ==
  CASE class = "not found" -> "Arquivo nao encontrado"
    [] class = "api" -> "Erro na API Groq"
    [] class = "network" -> "Erro de rede ao conectar Groq"

\* C17 - A classifier failure of one of the three classes (input not found,
\* API, network) is raised as the error of that class, never as another class
\* nor as the sentinel; every other failure, a thrown value that is no Error
\* and an empty model response give the sentinel.
C17_ClassifierErrorClasses ==
  Applied("read_image") =>
    LET o == calc.args[1]
        InClass(class) == o.kind = "throw" /\ o.isError /\ class \in o.words
        InNoClass ==
          \/ o.kind = "nocontent"
          \/ o.kind = "content" /\ o.text = <<>>
          \/ o.kind = "throw" /\ (~o.isError \/ o.words = {})
    IN  /\ \A class \in {"not found", "api", "network"} :
             InClass(class) =>
               /\ ~Returned(calc.out)
               /\ calc.out.thrown = ClassMessage(class)
        /\ InNoClass => Returned(calc.out) /\ calc.out.ret = NaoEPix

---------------------------------------------------------------------------
(* Properties of the artifact step and of retries *)

\* C15 - Whether the artifact is reused or created, a Drive response without
\* the file id or without the link ends planilha before the Ledger cell is
\* written: an intake that has issued the cell write holds both.
C15_MissingIdOrLinkIsFatal ==
  \A w \in Workers :
    InLog(w, "cell.update") => loc[w].fileId # 0 /\ loc[w].fileLink # Empty

\* The remote calls of one intake
CallTags ==
  {"groq.create", "ledger.get", "cell.get", "drive.list", "drive.create",
   "cell.update", "main.get", "main.update"}

\* Number of calls of that name in a log
Count(calls, name) == Cardinality({i \in DOMAIN calls : calls[i] = name})

\* C19 - No retries inside an intake: every remote call (classifier, Drive
\* list, Drive create, Ledger cell write, Summary View write, and the reads)
\* is issued at most once, and once a call has failed or the classifier has
\* answered "not a receipt" the intake issues no further call.
C19_NoInternalRetries ==
  [][\A w \in Workers :
       /\ \A name \in CallTags : Count(log'[w], name) <= 1
       /\ (raised[w] # "none" \/ result[w] = NotPix) => log'[w] \in {log[w], <<>>}
       /\ raised'[w] \notin {"none", raised[w]} =>
            /\ ledger' = ledger /\ main' = main
            /\ pc'[w] = "done"]_vars

\* A Drive create that failed ended the intake
C19_Witness ==
  \E w \in Workers :
    /\ pc[w] = "done" /\ raised[w] = "RemoteFailure"
    /\ log[w][Len(log[w])] = "drive.create"
    /\ drive = {}

FilesNamed(name) == {f \in drive : f.name = name}

\* What holds of the sheets and of the folder when intakes follow one another
RetryState ==
  /\ \A w \in Workers : Cardinality(FilesNamed(inp[w].fileName)) <= 1
  /\ \A c \in LedgerCells : cellWrites[c] <= 1
  /\ \A w \in Workers :
       (pc[w] = "done" /\ result[w].success /\ ~InLog(w, "drive.create")) =>
         /\ Cardinality(FilesNamed(inp[w].fileName)) = 1
         /\ cellWrites[loc[w].targetCell] = 1
         /\ ledger[loc[w].targetCell] = loc[w].hyperlink
         /\ loc[w].mainCell \in MainCells /\ main[loc[w].mainCell]

\* C18 - Retries, one intake after the other: no file name ever has a second
\* Drive file and no Ledger cell is written twice; an intake that reuses the
\* file an earlier intake uploaded and then succeeds has written its cell
\* exactly once and marked the Summary View; an intake that reads its cell
\* after an earlier intake wrote it ends there, with no upload and no write.
C18_RetrySafety ==
  [][/\ RetryState'
     /\ \A w \in Workers :
          (/\ pc[w] = "cellCheck" /\ pc'[w] # "cellCheck"
           /\ cellWrites[loc[w].targetCell] >= 1
           /\ raised'[w] # "RemoteFailure") =>
            /\ pc'[w] = "done" /\ raised'[w] = "Comprovante ja existe"
            /\ log'[w] = <<"groq.create", "ledger.get", "cell.get">>
            /\ drive' = drive /\ ledger' = ledger /\ main' = main]_vars

\* The second intake for Ana reuses the file the first one uploaded before it
\* failed, and completes
C18_Witness ==
  \E w \in Workers :
    /\ pc[w] = "done" /\ result[w].success
    /\ inp[w].nomeCapitalizado = Ana
    /\ InLog(w, "drive.list") /\ ~InLog(w, "drive.create")
    /\ created = 1
    /\ \A c \in LedgerCells : c # loc[w].targetCell => cellWrites[c] = 0

---------------------------------------------------------------------------
(* Properties of the listener *)

InProgress ==
  Cardinality({<<h, i>> \in Handlers \X (1..MaxBatch) : i <= inflight[h]})

\* C20 (as claimed) - At no point are two processPixReceipt calls in
\* progress, whether their messages came in one batch or in separate events.
C20_OneAtATime == InProgress <= 1

\* C20 - Within one messages.upsert batch at most one processPixReceipt call
\* is in progress, and the loop over the batch is suspended until it returns;
\* calls that belong to separate messages.upsert events may overlap.
C20_OneAtATimePerBatch ==
  \A h \in Handlers :
    /\ inflight[h] <= 1
    /\ inflight[h] = 1 <=> hpc[h] = "process"

\* Two events, each with its own call in progress
C20_Witness ==
  /\ \A h \in Handlers : inflight[h] = 1 /\ hpc[h] = "process"
  /\ left[1] = MaxBatch

---------------------------------------------------------------------------
(* Properties of interleaved intakes *)

---------------------------------------------------------------------------
(* Properties of the start of the process *)

\* C22 - Fail fast: when a required variable (sheet id, Drive folder id,
\* OAuth client id, secret, refresh token, classifier API key) is unset or
\* empty, the process fails while its modules load: the socket is never
\* opened and no message is ever handled.
C22_FailFast ==
  (\E name \in RequiredNames : env[name] # "set") =>
    /\ boot.stage \in {"load", "failed"}
    /\ boot.stage = "failed" =>
         boot.error \in RequiredNames /\ env[boot.error] # "set"
    /\ metrics.messagesReceived = 0
    /\ \A h \in Handlers : hpc[h] = "idle"

\* Only the classifier's key is missing, and the start failed on it
C22_Witness ==
  /\ boot = [stage |-> "failed", error |-> "GROQ_API_KEY"]
  /\ env["GROQ_API_KEY"] = "empty"
  /\ \A name \in RequiredNames \ {"GROQ_API_KEY"} : env[name] = "set"

---------------------------------------------------------------------------
(* Properties of the file name, of capitalizeName and of normalizeText *)

\* The characters of a text before its first whitespace character
RECURSIVE FirstToken(_)
FirstToken(t) ==
  IF t = <<>> \/ Head(t) \in WhiteSpace THEN <<>>
  ELSE <<Head(t)>> \o FirstToken(Tail(t))

C24_Capitalization ==
  Applied("capitalizeName") =>
    LET name == calc.args[1]
        Expected(i) ==
          IF i = 1 \/ name[i - 1] \in WhiteSpace
            THEN UpperOf(LowerOf(name[i]))
            ELSE LowerOf(name[i])
    IN  /\ calc.out.once = [i \in 1..Len(name) |-> Expected(i)]
        /\ calc.out.twice = calc.out.once

\* C25 - normalizeText is idempotent: normalizing a normalized text changes
\* nothing, and the result has no combining mark, no capital letter and no
\* outer blank left.
C25_NormalizeIdempotent ==
  Applied("normalizeText") =>
    /\ calc.out.twice = calc.out.once
    /\ \A i \in 1..Len(calc.out.once) :
         /\ calc.out.once[i] \notin CombiningMarks
         /\ IndexIn(calc.out.once[i], UpperChars) = 0
    /\ calc.out.once # <<>> =>
         /\ calc.out.once[1] \notin WhiteSpace
         /\ calc.out.once[Len(calc.out.once)] \notin WhiteSpace

\* A text that starts with a combining mark and a blank
C25_Witness ==
  /\ Applied("normalizeText")
  /\ calc.args[1] = <<"U0301", " ", "a", " ", "U0327">>
  /\ calc.out.once = <<"a">>
  /\ calc.out.twice = <<"a">>

---------------------------------------------------------------------------
(* Properties of intakes that follow one another *)

\* C26 - The Summary View is marked only by the intake that itself wrote the
\* Ledger cell, as its first and only writer; so once a cell was written by
\* an intake whose mark then failed, later intakes for that payer and period
\* stop at the duplicate check and the mark is never set.
C26_UnmarkedIsPermanent ==
  [][\A w \in Workers :
       /\ (pc[w] = "mainUpdate" /\ main' # main) =>
            /\ InLog(w, "cell.update") /\ loc[w].existingValue = Empty
            /\ cellWrites[loc[w].targetCell] = 1
            /\ ledger[loc[w].targetCell] = loc[w].hyperlink
       /\ (pc[w] = "cellCheck" /\ pc'[w] # "cellCheck"
             /\ ledger[loc[w].targetCell] # Empty) =>
            pc'[w] = "done" /\ main' = main]_vars

\* Ana's cell for Fevereiro is filled, her mark is not set, and the later
\* intake for her was rejected as a duplicate
C26_Witness ==
  \E w \in Workers :
    /\ pc[w] = "done" /\ raised[w] = "Comprovante ja existe"
    /\ inp[w].nomeCapitalizado = Ana /\ inp[w].mes = Fevereiro
    /\ cellWrites[<<"C", 2>>] = 1
    /\ ~main[<<"B", 2>>]
    /\ started = MaxIntakes

\* C27 - After every successful intake the artifact that the written Ledger
\* cell links to holds the image bytes submitted in that intake.
C27_LinkedArtifactHoldsSubmittedBytes ==
  \A w \in Workers :
    (pc[w] = "done" /\ result[w].success) =>
      /\ loc[w].hyperlink = hyperlink(loc[w].fileLink, inp[w].fileName)
      /\ \E f \in drive :
           /\ LinkOf(f.id) = loc[w].fileLink
           /\ f.bytes = inp[w].buffer

---------------------------------------------------------------------------
(* Properties of handleMessage and of the loop over a batch *)

\* C28 - processPixReceipt is in progress only for a message that is not
\* from the bot, has a body, is not older than the start, is not of an
\* ignored type or from an ignored JID, carries an image and comes from the
\* configured group; with an empty GROUP_JID no message reaches it.
C28_MessageGating ==
  \A h \in Handlers :
    inflight[h] > 0 =>
      /\ ~cur[h].fromMe /\ cur[h].hasMessage /\ ~cur[h].old
      /\ ~cur[h].ignoredType /\ ~cur[h].ignoredJid
      /\ cur[h].hasImage
      /\ groupJid # "" /\ cur[h].remoteJid = groupJid

\* The second message of a batch is an image from the group and is with
\* processPixReceipt; the first one did not get there
C28_Witness ==
  \E h \in Handlers :
    /\ inflight[h] = 1 /\ cur[h].remoteJid = GroupJid /\ cur[h].hasImage
    /\ handled[h] = <<1, 2>>
    /\ metrics = [messagesReceived |-> 2, messagesProcessed |-> 0, errors |-> 0]

\* A step in which a handleMessage call is entered
Enters(h) == Len(handled'[h]) = Len(handled[h]) + 1

\* A step in which a handleMessage call returns
Returns(h) == hpc[h] # "idle" /\ hpc'[h] = "loop" /\ cur'[h] = NoMessage

\* C29 - Each handleMessage call increments messagesReceived exactly once,
\* on entry, and increments at most one of messagesProcessed and errors, when
\* it returns; messagesProcessed is incremented only for a successful intake,
\* a not-pix result increments neither; messagesProcessed <= messagesReceived.
C29_CounterAccounting ==
  /\ [](metrics.messagesProcessed + metrics.errors <= metrics.messagesReceived)
  /\ [][LET received == metrics'.messagesReceived - metrics.messagesReceived
            processed == metrics'.messagesProcessed - metrics.messagesProcessed
            errors == metrics'.errors - metrics.errors
        IN  /\ received \in {0, 1} /\ processed \in {0, 1} /\ errors \in {0, 1}
            /\ processed + errors <= 1
            /\ received = 1 <=> \E h \in Handlers : Enters(h)
            /\ processed + errors = 1 =>
                 \E h \in Handlers : Returns(h) /\ ~Enters(h)
            /\ \A h \in Handlers :
                 (hpc[h] = "process" /\ hpc'[h] # "process") =>
                   /\ processed = 1 <=> res'[h].success
                   /\ errors = 1 <=> res'[h].reason = "error"
                   /\ res'[h].reason = "not-pix" => metrics' = metrics]_vars

\* Three messages were received: one was processed, one failed and one was
\* not a receipt
C29_Witness ==
  /\ metrics = [messagesReceived |-> 3, messagesProcessed |-> 1, errors |-> 1]
  /\ \A h \in Handlers : hpc[h] # "process" /\ hpc[h] # "save"
  /\ \E h \in Handlers : res[h].reason = "not-pix"

\* C30 - The messages of one batch are passed to handleMessage in array
\* order, a call is entered only when the previous one has returned, and
\* whatever a call ends with, the listener returns only after every message
\* of the batch was handled.
C30_BatchInOrder ==
  [][\A h \in Handlers :
       /\ Enters(h) =>
            /\ handled'[h] = Append(handled[h], Len(handled[h]) + 1)
            /\ cur[h] = NoMessage /\ inflight[h] = 0
       /\ Returns(h) =>
            /\ left'[h] = batch[h] - Len(handled'[h])
            /\ inflight'[h] = 0
       /\ (hpc[h] # "idle" /\ hpc'[h] = "idle") =>
            /\ handled[h] = [i \in 1..batch[h] |-> i]
            /\ inflight[h] = 0]_vars

\* The first message of a batch failed and the second one is being processed
C30_Witness ==
  /\ hpc[1] = "process" /\ batch[1] = 2 /\ handled[1] = <<1, 2>>
  /\ metrics = [messagesReceived |-> 2, messagesProcessed |-> 0, errors |-> 1]

---------------------------------------------------------------------------
(* Properties of the connection and of the process *)

\* C31 - Reconnect attempts are bounded: a running process never has more
\* than maxReconnectAttempts attempts; the counter is 0 from every 'open' to
\* the next 'close'; every 'close' that is not a logout adds one, and when
\* the counter then exceeds the limit the process exits with no timer set and
\* no connect() called.
C31_ReconnectBounded ==
  /\ [](Running => conn.attempts <= maxReconnectAttempts)
  /\ [](conn.connected => conn.attempts = 0)
  /\ [][/\ (conn'.attempts # conn.attempts) =>
             \/ conn'.attempts = 0 /\ conn'.connected
             \/ conn'.reconnections = conn.reconnections + 1
        /\ (conn'.reconnections # conn.reconnections) =>
             /\ conn'.reconnections = conn.reconnections + 1
             /\ conn'.attempts = conn.attempts + 1
             /\ ~conn'.connected
             /\ (conn'.attempts > maxReconnectAttempts) =>
                  /\ conn'.proc = "exit1"
                  /\ conn'.timers = conn.timers
                  /\ conn'.reconnectTimer = conn.reconnectTimer
                  /\ conn'.connectCalls = conn.connectCalls]_vars

\* The process has exited on the eleventh 'close' in a row, after an 'open'
\* had reset the counter
C31_Witness ==
  /\ conn.proc = "exit1"
  /\ conn.attempts = maxReconnectAttempts + 1
  /\ conn.reconnections > conn.attempts

\* C32 - At most one reconnect timer is pending: a timer is set only when
\* none is pending and shutdown has not begun, and every call of connect()
\* after the first one is made by a timer's callback and uses that timer up,
\* so the 'close' events that arrive while a timer is pending lead to one
\* connect() call.
C32_OneTimer ==
  /\ [](conn.timers <= 1)
  /\ [](conn.timers = 1 => conn.reconnectTimer = "set")
  /\ [][/\ (conn'.timers > conn.timers) =>
             /\ conn.timers = 0 /\ conn.reconnectTimer = "null"
             /\ ~conn.isShuttingDown
             /\ conn'.reconnections = conn.reconnections + 1
        /\ (conn'.reconnections # conn.reconnections
              /\ (conn.reconnectTimer # "null" \/ conn.isShuttingDown)) =>
             /\ conn'.timers = conn.timers
             /\ conn'.reconnectTimer = conn.reconnectTimer
             /\ conn'.connectCalls = conn.connectCalls
        /\ (conn'.connectCalls # conn.connectCalls) =>
             /\ conn'.connectCalls = conn.connectCalls + 1
             /\ conn.connectCalls > 0 =>
                  /\ conn.timers = 1 /\ conn'.timers = 0
                  /\ conn'.reconnectTimer = "null"]_vars

\* Two 'close' events arrived before the timer fired, and connect() has
\* been called once since
C32_Witness ==
  /\ Running /\ ~conn.isShuttingDown
  /\ conn.attempts = 2 /\ conn.reconnections = 2
  /\ conn.connectCalls = 2 /\ conn.reconnecting = 1
  /\ conn.timers = 0 /\ conn.reconnectTimer = "null"

\* C33 - Once shutdown has begun no socket is created and no reconnect is
\* scheduled: no step of a process that is shutting down calls makeWASocket
\* or sets a timer.
C33_NoSocketAfterShutdown ==
  [][conn.isShuttingDown =>
       /\ conn'.sockets = conn.sockets
       /\ conn'.timers <= conn.timers]_vars

\* C34 - After a 'close' that is not a logout, with the limit of attempts not
\* exceeded and shutdown not begun, a timer is pending; and, timers firing,
\* a pending timer leads to a further call of connect() unless shutdown
\* begins or the process exits first.
C34_ReconnectLiveness ==
  /\ [][(/\ conn'.reconnections # conn.reconnections
         /\ conn'.attempts <= maxReconnectAttempts
         /\ ~conn.isShuttingDown) =>
          /\ Running' /\ conn'.timers = 1]_vars
  /\ \A n \in 1..MaxConnects :
       (Running /\ ~conn.isShuttingDown /\ conn.timers = 1 /\ conn.connectCalls = n)
         ~> (conn.connectCalls > n \/ conn.isShuttingDown \/ ~Running)

\* connect() has been called again after a 'close', and its socket is made
C34_Witness ==
  /\ Running /\ ~conn.isShuttingDown
  /\ conn.reconnections = 1 /\ conn.connectCalls = 2
  /\ conn.sockets = 2 /\ conn.currentSock = 2

\* C35 - getAuthClient creates the OAuth2 client at most once per process:
\* the first call creates and caches it, every later call returns that same
\* client and creates none.
C35_AuthClientCreatedOnce ==
  /\ [](/\ auth.created <= 1
        /\ \A i \in DOMAIN auth.returned :
             auth.returned[i] = auth.cachedAuth /\ auth.cachedAuth = 1)
  /\ [][(auth'.returned # auth.returned) =>
          /\ Len(auth'.returned) = Len(auth.returned) + 1
          /\ auth'.created = (IF auth.returned = <<>> THEN 1 ELSE auth.created)
          /\ auth'.cachedAuth = auth'.returned[1]]_vars

\* Three calls have returned the client that the first one created
C35_Witness ==
  /\ Len(auth.returned) = MaxAuthCalls
  /\ auth.created = 1
  /\ auth.returned[MaxAuthCalls] = auth.returned[1]

====
